---- MODULE Spec2Model ----
(***************************************************************************)
(* Model of the computer-use agent loop of BerryServer                     *)
(* (src/unnamed/part_004): launchSandboxedBrowser, handleModelAction,      *)
(* captureScreenshot and runComputerUseAgent.                              *)
(*                                                                         *)
(* One run of runComputerUseAgent is a sequential async function; every    *)
(* await is two steps of the model: the call is made (Invoke), and the     *)
(* call settles and the run goes on.  A second, coarser specification      *)
(* (TwoRuns) puts two invocations side by side.                            *)
(* The browser (Playwright) and the model                                  *)
(* service (openai.responses.create) are the environment: each call either *)
(* fulfils or rejects, and a fulfilled model call returns one of the turns *)
(* of Catalogue.                                                           *)
(*                                                                         *)
(* Strings the program concatenates are sequences of tokens, "\n" being    *)
(* the token of a line break; a field a JavaScript object may lack is a    *)
(* record field that may be missing from DOMAIN.                           *)
(***************************************************************************)
EXTENDS Integers, Sequences, FiniteSets, TLC

VARIABLES
    pc,                \* position of the run: the await it is suspended at
    browser,           \* the Chromium process: "none", "open" or "closed"
    step,              \* let step (line 132)
    response,          \* let response (line 136)
    computerCall,      \* const computerCall (line 160)
    screenshotBase64,  \* const screenshotBase64 (line 185)
    completion,        \* how the try block completed, while finally runs
    outcome,           \* the promise runComputerUseAgent returned
    trace,             \* every browser and model call issued, in order
    payloads,          \* the requests passed to openai.responses.create
    turns,             \* the responses openai.responses.create returned
    outstanding,       \* the calls issued whose promise has not settled yet
    runs,              \* two invocations side by side: the locals of each
    chromium,          \* the browsers chromium.launch has started, by handle
    timedOut,          \* the invocations whose caller has stopped waiting
    reqs,              \* the requests to the rule routes: the locals of each
    rules,             \* table berry_rules, by rule id
    notifications,     \* table berry_notifications, in insertion order
    schedules,         \* the QStash schedules, by schedule id
    baseUrl            \* process.env.QSTASH_DESTINATION_BASE_URL

\* What two invocations running side by side are made of.
runsVars == << runs, chromium, timedOut >>

\* What the rule service is made of.
ruleVars == << reqs, rules, notifications, schedules, baseUrl >>

vars == << pc, browser, step, response, computerCall, screenshotBase64,
           completion, outcome, trace, payloads, turns, outstanding,
           runs, chromium, timedOut,
           reqs, rules, notifications, schedules, baseUrl >>

----------------------------------------------------------------------------
(* Bounds and program constants *)

\* The model service returns at most MaxSteps action-bearing turns per run.
MaxSteps == 2

DisplayWidth == 1024
DisplayHeight == 768
SettleDelay == 750
DefaultWait == 1000

----------------------------------------------------------------------------
(* Strings *)

NL == "\n"
EmptyString == << >>
Done == << "Done" >>
TaskComplete == << "Task complete" >>
ExampleDomain == << "Example Domain" >>
TwoLines == << "line1", NL, "line2" >>

\* Join as it would be if the separator were forgotten.
RECURSIVE JoinNoSeparator(_, _)
JoinNoSeparator(parts, sep) ==
    IF parts = << >> THEN EmptyString
    ELSE parts[1] \o JoinNoSeparator(Tail(parts), sep)

\* Array.prototype.join(sep) on an array of strings.
RECURSIVE Join(_, _)
Join(parts, sep) ==
    IF parts = << >> THEN EmptyString
    ELSE IF Len(parts) = 1 THEN parts[1]
    ELSE parts[1] \o << sep >> \o Join(Tail(parts), sep)

Has(obj, field) == field \in DOMAIN obj

----------------------------------------------------------------------------
(* What the model service can return *)

\* pending_safety_checks entries: opaque objects of the service.
Check1 == [id |-> "sc_1", code |-> "malicious_instructions"]
Check2 == [id |-> "sc_2", code |-> "irrelevant_domain"]

\* A JavaScript value of the url field: its typeof and its content.
JsString(s) == [typeof |-> "string", val |-> s]
JsNumber(n) == [typeof |-> "number", val |-> n]

\* action objects of a computer_call
Click == [type |-> "click", x |-> 50, y |-> 50]
RightClick == [type |-> "click", x |-> 10, y |-> 20, button |-> "right"]
DoubleClick == [type |-> "double_click", x |-> 5, y |-> 6]
Scroll == [type |-> "scroll", x |-> 1, y |-> 2, scroll_x |-> 0, scroll_y |-> 300]
TypeText == [type |-> "type", text |-> "hello"]
KeyPress == [type |-> "keypress", keys |-> << "Control", "a" >>]
Wait == [type |-> "wait"]
WaitFor == [type |-> "wait", duration |-> 200]
Navigate == [type |-> "navigate", url |-> JsString("https://example.com")]
NavigateIdle == [type |-> "navigate", url |-> JsString("https://example.com"),
                 wait_until |-> "networkidle"]
Goto == [type |-> "goto", url |-> JsString("https://example.org")]
OpenUrl == [type |-> "open_url", url |-> JsString("https://example.net")]
NavigateNoUrl == [type |-> "navigate"]
NavigateEmptyUrl == [type |-> "navigate", url |-> JsString("")]
NavigateNumberUrl == [type |-> "navigate", url |-> JsNumber("42")]
ScreenshotRequest == [type |-> "screenshot"]
Drag == [type |-> "drag"]

\* items of response.output
Call(id, action) ==
    [type |-> "computer_call", call_id |-> id, action |-> action]
CallWithChecks(id, action, checks) ==
    [type |-> "computer_call", call_id |-> id, action |-> action,
     pending_safety_checks |-> checks]
Text(s) == [type |-> "text", text |-> s]
Reasoning(summary) == [type |-> "reasoning", summary |-> summary]
Summary(s) == [type |-> "summary_text", text |-> s]
Message == [type |-> "message"]

\* item k of the n-th response has a call_id of its own.
CallId(n, k) == [resp |-> n, item |-> k]

\* The outputs of the turns that carry a computer_call.
ActionOutputs(n) == <<
    << Call(CallId(n, "a"), Click) >>,
    << Text(Done), CallWithChecks(CallId(n, "b"), RightClick, << Check1, Check2 >>) >>,
    << CallWithChecks(CallId(n, "c"), DoubleClick, << >>) >>,
    << CallWithChecks(CallId(n, "d"), Scroll, << Check2, Check1 >>) >>,
    << Reasoning(<< Summary(TaskComplete) >>), Call(CallId(n, "e"), TypeText) >>,
    << Call(CallId(n, "f"), KeyPress) >>,
    << Call(CallId(n, "g"), Wait) >>,
    << Call(CallId(n, "h"), WaitFor) >>,
    << CallWithChecks(CallId(n, "i"), Navigate, << Check1 >>) >>,
    << Call(CallId(n, "j"), NavigateIdle) >>,
    << Call(CallId(n, "k"), Goto) >>,
    << Call(CallId(n, "l"), OpenUrl) >>,
    << Call(CallId(n, "m"), NavigateNoUrl) >>,
    << Call(CallId(n, "n"), NavigateEmptyUrl) >>,
    << Call(CallId(n, "o"), NavigateNumberUrl) >>,
    << Call(CallId(n, "p"), ScreenshotRequest) >>,
    << CallWithChecks(CallId(n, "q"), Drag, << Check2 >>), Text(Done) >>,
    << Call(CallId(n, "r"), TypeText), Call(CallId(n, "s"), Click) >>
>>

\* The outputs of the turns that carry no computer_call.
TerminalOutputs == <<
    << >>,
    << Text(ExampleDomain) >>,
    << Text(Done), Text(TaskComplete) >>,
    << Reasoning(<< Summary(TaskComplete), Summary(Done) >>), Message, Text(Done) >>,
    << Reasoning(<< >>), Text(TwoLines) >>,
    << Message >>
>>

\* The response objects the service can return as its n-th response: with an
\* output array, or (response.output?.) without one.
Responses(n, allowAction) ==
    { [id |-> n, output |-> TerminalOutputs[i]] : i \in DOMAIN TerminalOutputs }
    \cup { [id |-> n] }
    \cup IF allowAction
         THEN { [id |-> n, output |-> ActionOutputs(n)[i]] : i \in DOMAIN ActionOutputs(n) }
         ELSE { }

----------------------------------------------------------------------------
(* handleModelAction *)

NavigateKinds == { "open_url", "goto", "navigate" }

\* InvalidUrl as it would be if only a missing url were rejected.
InvalidUrlOnlyMissing(action) == ~Has(action, "url")

\* const { url, wait_until = "load" } = action; if (!url || typeof url !== "string")
InvalidUrl(action) ==
    \/ ~Has(action, "url")
    \/ action.url.val = ""
    \/ action.url.typeof # "string"

\* ClickArm as it would be without its break: the double_click arm runs too.
ClickArmFallsThrough(action) ==
    << [op |-> "mouse.click", x |-> action.x, y |-> action.y,
        button |-> IF Has(action, "button") THEN action.button ELSE "left"],
       [op |-> "mouse.dblclick", x |-> action.x, y |-> action.y,
        button |-> IF Has(action, "button") THEN action.button ELSE "left"] >>

\* case "click": await page.mouse.click(x, y, { button }); break;
ClickArm(action) ==
    << [op |-> "mouse.click", x |-> action.x, y |-> action.y,
        button |-> IF Has(action, "button") THEN action.button ELSE "left"] >>

\* KeyPressArm as it would be if the keys were pressed last to first.
KeyPressArmReversed(action) ==
    [i \in 1..Len(action.keys) |->
        [op |-> "keyboard.press", key |-> action.keys[Len(action.keys) + 1 - i]]]

\* case "keypress": for (const k of keys) { await page.keyboard.press(k); }
KeyPressArm(action) ==
    [i \in 1..Len(action.keys) |->
        [op |-> "keyboard.press", key |-> action.keys[i]]]

\* The page calls the switch arm of action.type issues, in order, when none
\* of them rejects.
PageCalls(action) ==
    CASE action.type = "click" ->
           ClickArm(action)
      [] action.type = "double_click" ->
           << [op |-> "mouse.dblclick", x |-> action.x, y |-> action.y,
               button |-> IF Has(action, "button") THEN action.button ELSE "left"] >>
      [] action.type = "scroll" ->
           << [op |-> "mouse.move", x |-> action.x, y |-> action.y],
              [op |-> "evaluate", sx |-> action.scroll_x, sy |-> action.scroll_y] >>
      [] action.type = "type" ->
           << [op |-> "keyboard.type", text |-> action.text] >>
      [] action.type = "keypress" ->
           KeyPressArm(action)
      [] action.type = "wait" ->
           << [op |-> "waitForTimeout",
               ms |-> IF Has(action, "duration") THEN action.duration
                      ELSE DefaultWait] >>
      [] action.type \in NavigateKinds ->
           IF InvalidUrl(action) THEN << >>
           ELSE << [op |-> "goto", url |-> action.url.val,
                    waitUntil |-> IF Has(action, "wait_until")
                                  THEN action.wait_until ELSE "load"] >>
      [] action.type = "screenshot" -> << >>
      [] OTHER -> << >>

\* Catches as it would be without the try/catch around page.goto.
CatchesNothing(action) == FALSE

\* Whether a rejection of the page call is caught inside the switch arm
\* (try { await page.goto(...) } catch (err) { console.error(...) }).
Catches(action) == action.type \in NavigateKinds

\* One invocation of handleModelAction.  failAt = 0: every page call
\* fulfils; failAt = k: the k-th page call rejects, so the calls after it
\* are never issued.  The result: the page calls issued with their outcome,
\* and whether the returned promise rejects.
HandleModelAction(action, failAt) ==
    LET calls == PageCalls(action)
        last == IF failAt = 0 THEN Len(calls) ELSE failAt
    IN  [events |-> [i \in 1..last |-> [call |-> calls[i], ok |-> i # failAt]],
         raised |-> failAt # 0 /\ ~Catches(action)]

----------------------------------------------------------------------------
(* runComputerUseAgent: the pure parts *)

\* FindComputerCall as it would be if a turn that carries text were taken
\* for the final one.
FindComputerCallUnlessText(resp) ==
    IF ~Has(resp, "output") THEN << >>
    ELSE LET calls == SelectSeq(resp.output, LAMBDA item : item.type = "computer_call")
             texts == SelectSeq(resp.output, LAMBDA item : item.type = "text")
         IN  IF calls = << >> \/ texts # << >> THEN << >> ELSE << calls[1] >>

\* FindComputerCall as it would be under a ceiling of one step: from the
\* second iteration on the turn is taken for the final one.
FindComputerCallCapped(resp) ==
    IF ~Has(resp, "output") \/ step >= 1 THEN << >>
    ELSE LET calls == SelectSeq(resp.output, LAMBDA item : item.type = "computer_call")
         IN  IF calls = << >> THEN << >> ELSE << calls[1] >>

\* FindComputerCall as it would be if the last computer_call of the output
\* were taken.
FindComputerCallLast(resp) ==
    IF ~Has(resp, "output") THEN << >>
    ELSE LET calls == SelectSeq(resp.output, LAMBDA item : item.type = "computer_call")
         IN  IF calls = << >> THEN << >> ELSE << calls[Len(calls)] >>

\* response.output?.find((item) => item.type === "computer_call"):
\* the first such item; << >> stands for undefined.
FindComputerCall(resp) ==
    IF ~Has(resp, "output") THEN << >>
    ELSE LET calls == SelectSeq(resp.output, LAMBDA item : item.type = "computer_call")
         IN  IF calls = << >> THEN << >> ELSE << calls[1] >>

\* item.text ?? item.summary?.[0]?.text ?? ""
ItemText(item) ==
    IF Has(item, "text") THEN item.text
    ELSE IF Has(item, "summary") /\ Len(item.summary) >= 1
            /\ Has(item.summary[1], "text")
         THEN item.summary[1].text
         ELSE EmptyString

\* response.output?.filter(text or reasoning).map(...)
TextParts(output) ==
    LET kept == SelectSeq(output, LAMBDA item : item.type \in { "text", "reasoning" })
    IN  [i \in 1..Len(kept) |-> ItemText(kept[i])]

\* return textParts?.join("\n") ?? ""
FinalText(resp) ==
    IF Has(resp, "output") THEN Join(TextParts(resp.output), NL) ELSE EmptyString

\* AcknowledgedSafety as it would be if the checks were never echoed.
AcknowledgedSafetyNone(call) == << >>

\* const acknowledgedSafety = computerCall.pending_safety_checks ?? []
AcknowledgedSafety(call) ==
    IF Has(call, "pending_safety_checks") THEN call.pending_safety_checks ELSE << >>

\* The tools array both requests declare.
Tools ==
    << [type |-> "computer_use_preview", display_width |-> DisplayWidth,
        display_height |-> DisplayHeight, environment |-> "browser"] >>

\* The argument of the first openai.responses.create.
FirstPayload(prompt) ==
    [model |-> "computer-use-preview", tools |-> Tools,
     input |-> << [role |-> "user",
                   content |-> << [type |-> "input_text", text |-> prompt] >>] >>,
     truncation |-> "auto"]

\* ReplyPayload as it would be if the handle of the first response were kept
\* for the whole run.
ReplyPayloadFirstHandle(resp, call, shot) ==
    [model |-> "computer-use-preview", previous_response_id |-> turns[1].id,
     tools |-> Tools,
     input |-> << [call_id |-> call.call_id, type |-> "computer_call_output",
                   acknowledged_safety_checks |-> AcknowledgedSafety(call),
                   output |-> [type |-> "input_image",
                               image_url |-> << "data:image/png;base64,", shot >>]] >>,
     truncation |-> "auto"]

\* ReplyPayload as it would be if the screenshot of the first step were sent
\* again in every later step.
ReplyPayloadFirstShot(resp, call, shot) ==
    [model |-> "computer-use-preview", previous_response_id |-> resp.id,
     tools |-> Tools,
     input |-> << [call_id |-> call.call_id, type |-> "computer_call_output",
                   acknowledged_safety_checks |-> AcknowledgedSafety(call),
                   output |-> [type |-> "input_image",
                               image_url |-> << "data:image/png;base64,",
                                                [shot |-> 1] >>]] >>,
     truncation |-> "auto"]

\* The argument of the openai.responses.create that answers a computer_call.
ReplyPayload(resp, call, shot) ==
    [model |-> "computer-use-preview", previous_response_id |-> resp.id,
     tools |-> Tools,
     input |-> << [call_id |-> call.call_id, type |-> "computer_call_output",
                   acknowledged_safety_checks |-> AcknowledgedSafety(call),
                   output |-> [type |-> "input_image",
                               image_url |-> << "data:image/png;base64,", shot >>]] >>,
     truncation |-> "auto"]

----------------------------------------------------------------------------
(* runComputerUseAgent: the run *)

Prompt == "Open example.com and report the page title"

NoResponse == [id |-> 0]
NoCall == [type |-> "none"]
NoShot == [shot |-> 0]
Running == [kind |-> "running"]
Pending == [state |-> "pending"]

Event(call, ok) == [call |-> call, ok |-> ok]

RunInit ==
    /\ pc = "launch"
    /\ browser = "none"
    /\ step = 0
    /\ response = NoResponse
    /\ computerCall = NoCall
    /\ screenshotBase64 = NoShot
    /\ completion = Running
    /\ outcome = Pending
    /\ trace = << >>
    /\ payloads = << >>
    /\ turns = << >>
    /\ outstanding = { }
    /\ runs = [r \in { 1, 2 } |->
                 [pc |-> "launch", browser |-> 0, step |-> 0, response |-> "none",
                  completion |-> "running", outcome |-> "pending"]]
    /\ chromium = << >>
    /\ timedOut = { }

\* ---------------------------------------------------------------------------
\* The rule service: what it stores and what its collaborators hold
\* ---------------------------------------------------------------------------

\* The requests that can be in progress at once.
Requests == { 1, 2 }

\* A text is the sequence of its characters; a prompt is cut into its words
\* and the white space between them, which is all String.trim() looks at.
WhiteSpace == { " ", "\t", "\n" }

RECURSIVE TrimStart(_)
TrimStart(text) ==
    IF text # << >> /\ Head(text) \in WhiteSpace THEN TrimStart(Tail(text)) ELSE text

RECURSIVE TrimEnd(_)
TrimEnd(text) ==
    IF text # << >> /\ text[Len(text)] \in WhiteSpace
    THEN TrimEnd(SubSeq(text, 1, Len(text) - 1))
    ELSE text

Trim(text) == TrimEnd(TrimStart(text))

\* The rows of berry_rules before any request.
Undefined == "undefined"
SeedRules ==
    [id \in { "r1", "r2" } |->
        [id |-> id, user_id |-> "u1",
         prompt |-> << "Watch", " ", "prices" >>,
         cron_id |-> IF id = "r1" THEN "s1" ELSE Undefined,
         history |-> IF id = "r1"
                     THEN << [content |-> << "Price", " ", "dropped" >>, timestamp |-> 0] >>
                     ELSE << >>]]

BaseUrl == "https://berry.example"

\* The rule service starts with no request received, on either deployment:
\* with the destination base URL in the environment or without it.
RuleInit ==
    /\ RunInit
    /\ reqs = [q \in Requests |-> [handler |-> "none", pc |-> "idle", sent |-> << >>]]
    /\ rules = SeedRules
    /\ notifications = << >>
    /\ schedules = [sid \in { "s1" } |->
                        [cron |-> "0 0 * * *", ruleId |-> "r1", retries |-> 3, by |-> 0]]
    /\ baseUrl \in { BaseUrl, Undefined }

Init ==
    /\ RuleInit
    /\ baseUrl = BaseUrl

\* The calls the run awaits outside handleModelAction.
LaunchCall == [op |-> "launch", chromiumSandbox |-> TRUE]
NewPageCall == [op |-> "newPage"]
ViewportCall == [op |-> "setViewportSize", width |-> DisplayWidth, height |-> DisplayHeight]
CreateCall == [op |-> "responses.create"]
SettleWait == [op |-> "waitForTimeout", ms |-> SettleDelay]
PageScreenshot == [op |-> "screenshot", fullPage |-> TRUE]
CloseCall == [op |-> "close"]

\* The page calls the running handleModelAction has completed: the calls
\* made since the response it serves arrived.
DispatchProgress ==
    LET creates == { i \in DOMAIN trace : trace[i].call.op = "responses.create" }
    IN  Len(trace) - (CHOOSE i \in creates : \A j \in creates : j <= i)

\* The await expressions of the run, and the call each of them makes.
AwaitSites ==
    { "launch", "newPage", "setViewportSize", "firstRequest", "dispatch",
      "settle", "screenshot", "send", "finally" }

CurrentCall ==
    CASE pc = "launch" -> LaunchCall
      [] pc = "newPage" -> NewPageCall
      [] pc = "setViewportSize" -> ViewportCall
      [] pc \in { "firstRequest", "send" } -> CreateCall
      [] pc = "dispatch" -> PageCalls(computerCall.action)[DispatchProgress + 1]
      [] pc = "settle" -> SettleWait
      [] pc = "screenshot" -> PageScreenshot
      [] pc = "finally" -> CloseCall

\* Awaited as it would be if the call were made without await: the run goes
\* on while the call is still in flight.
AwaitedNot(call) ==
    /\ call \in outstanding
    /\ UNCHANGED outstanding

\* await: the run goes on only when the call it made has settled.
Awaited(call) ==
    /\ call \in outstanding
    /\ outstanding' = outstanding \ { call }

\* The run makes the call of the await expression it has reached; the
\* promise of the call is pending from here on.
Invoke ==
    /\ pc \in AwaitSites
    /\ pc = "dispatch" => PageCalls(computerCall.action) # << >>
    /\ CurrentCall \notin outstanding
    /\ outstanding' = outstanding \cup { CurrentCall }
    /\ UNCHANGED << pc, browser, step, response, computerCall, screenshotBase64,
                    completion, outcome, trace, payloads, turns >>
    /\ UNCHANGED << runsVars, ruleVars >>

\* A rejection inside launchSandboxedBrowser: the call is outside the try
\* block, so the run's promise rejects at once.
RejectUnguarded(err) ==
    /\ pc' = "done"
    /\ outcome' = [state |-> "rejected", error |-> err]

\* Throw as it would be if a rejected call were caught and the loop went on.
ThrowSwallowed(err) ==
    /\ pc' = "inspect"
    /\ UNCHANGED completion

\* A rejection inside the try block: control passes to the finally block,
\* the error being rethrown once finally has run.
Throw(err) ==
    /\ pc' = "finally"
    /\ completion' = [kind |-> "throw", error |-> err]

\* return value inside the try block: finally runs before the promise resolves.
Return(value) ==
    /\ pc' = "finally"
    /\ completion' = [kind |-> "return", value |-> value]

\* const browser = await chromium.launch({...})
Launch ==
    /\ pc = "launch"
    /\ Awaited(LaunchCall)
    /\ \E ok \in BOOLEAN :
        /\ trace' = Append(trace, Event(LaunchCall, ok))
        /\ IF ok
           THEN pc' = "newPage" /\ browser' = "open" /\ UNCHANGED outcome
           ELSE RejectUnguarded("launch") /\ UNCHANGED browser
    /\ UNCHANGED << step, response, computerCall, screenshotBase64, completion,
                    payloads, turns >>
    /\ UNCHANGED << runsVars, ruleVars >>

\* const page = await browser.newPage()
NewPage ==
    /\ pc = "newPage"
    /\ Awaited(NewPageCall)
    /\ \E ok \in BOOLEAN :
        /\ trace' = Append(trace, Event(NewPageCall, ok))
        /\ IF ok
           THEN pc' = "setViewportSize" /\ UNCHANGED outcome
           ELSE RejectUnguarded("newPage")
    /\ UNCHANGED << browser, step, response, computerCall, screenshotBase64,
                    completion, payloads, turns >>
    /\ UNCHANGED << runsVars, ruleVars >>

\* await page.setViewportSize({ width: 1024, height: 768 })
SetViewportSize ==
    /\ pc = "setViewportSize"
    /\ Awaited(ViewportCall)
    /\ \E ok \in BOOLEAN :
        /\ trace' = Append(trace, Event(ViewportCall, ok))
        /\ IF ok
           THEN pc' = "firstRequest" /\ UNCHANGED outcome
           ELSE RejectUnguarded("setViewportSize")
    /\ UNCHANGED << browser, step, response, computerCall, screenshotBase64,
                    completion, payloads, turns >>
    /\ UNCHANGED << runsVars, ruleVars >>

\* ModelCall as it would be with a retry: a request that was rejected is
\* sent again.
ModelCallRetried(payload) ==
    /\ Awaited(CreateCall)
    /\ payloads' = Append(payloads, payload)
    /\ \/ \E r \in Responses(Len(payloads) + 1, Len(turns) < MaxSteps) :
            /\ trace' = Append(trace, Event(CreateCall, TRUE))
            /\ response' = r
            /\ turns' = Append(turns, r)
            /\ pc' = "inspect"
            /\ UNCHANGED completion
       \/ /\ trace' = Append(trace, Event(CreateCall, FALSE))
          /\ UNCHANGED << pc, completion, response, turns >>

\* await openai.responses.create(payload): the service answers with its next
\* response, or the call rejects.
ModelCall(payload) ==
    /\ Awaited(CreateCall)
    /\ payloads' = Append(payloads, payload)
    /\ \/ \E r \in Responses(Len(payloads) + 1, Len(turns) < MaxSteps) :
            /\ trace' = Append(trace, Event(CreateCall, TRUE))
            /\ response' = r
            /\ turns' = Append(turns, r)
            /\ pc' = "inspect"
            /\ UNCHANGED completion
       \/ /\ trace' = Append(trace, Event(CreateCall, FALSE))
          /\ Throw("model")
          /\ UNCHANGED << response, turns >>

\* FIRST REQUEST (lines 136-154)
FirstRequest ==
    /\ pc = "firstRequest"
    /\ ModelCall(FirstPayload(Prompt))
    /\ UNCHANGED << browser, step, computerCall, screenshotBase64, outcome >>
    /\ UNCHANGED << runsVars, ruleVars >>

\* Top of the loop (lines 158-177): count the step, look for a computer_call,
\* return the text of the response when there is none.
Inspect ==
    /\ pc = "inspect"
    /\ step' = step + 1
    /\ LET found == FindComputerCall(response)
       IN  IF found = << >>
           THEN Return(FinalText(response)) /\ UNCHANGED computerCall
           ELSE pc' = "dispatch" /\ computerCall' = found[1] /\ UNCHANGED completion
    /\ UNCHANGED << browser, response, screenshotBase64, outcome, trace,
                    payloads, turns, outstanding >>
    /\ UNCHANGED << runsVars, ruleVars >>

\* await handleModelAction(page, action), one await of the handler at a
\* time: the page call the handler is suspended at settles.  The handler
\* goes on to its next page call, or returns, or throws what the call threw;
\* a handler without page call returns at once.
Dispatch ==
    /\ pc = "dispatch"
    /\ LET action == computerCall.action
           calls == PageCalls(action)
           k == DispatchProgress + 1
       IN  IF calls = << >>
           THEN /\ HandleModelAction(action, 0).raised = FALSE
                /\ pc' = "settle"
                /\ UNCHANGED << completion, trace, outstanding >>
           ELSE /\ Awaited(calls[k])
                /\ \E ok \in BOOLEAN :
                    LET done == HandleModelAction(action, IF ok THEN 0 ELSE k)
                    IN  /\ trace' = Append(trace, done.events[k])
                        /\ IF done.raised THEN Throw("action")
                           ELSE IF ok /\ k < Len(calls)
                           THEN UNCHANGED << pc, completion >>
                           ELSE pc' = "settle" /\ UNCHANGED completion
    /\ UNCHANGED << browser, step, response, computerCall, screenshotBase64,
                    outcome, payloads, turns >>
    /\ UNCHANGED << runsVars, ruleVars >>

\* Settle as it would be without the settle delay: the loop goes straight
\* from the dispatcher to the screenshot.
SettleOmitted ==
    /\ pc = "settle"
    /\ pc' = "screenshot"
    /\ UNCHANGED << browser, step, response, computerCall, screenshotBase64,
                    completion, outcome, trace, payloads, turns, outstanding >>
    /\ UNCHANGED << runsVars, ruleVars >>

\* await page.waitForTimeout(750)
Settle ==
    /\ pc = "settle"
    /\ Awaited(SettleWait)
    /\ \E ok \in BOOLEAN :
        /\ trace' = Append(trace, Event(SettleWait, ok))
        /\ IF ok
           THEN pc' = "screenshot" /\ UNCHANGED completion
           ELSE Throw("settle")
    /\ UNCHANGED << browser, step, response, computerCall, screenshotBase64,
                    outcome, payloads, turns >>
    /\ UNCHANGED << runsVars, ruleVars >>

\* The screenshots page.screenshot has been asked for so far.
Shots(tr) == SelectSeq(tr, LAMBDA e : e.call.op = "screenshot")

\* const screenshotBase64 = await captureScreenshot(page): every capture is
\* an image of its own.
CaptureScreenshot ==
    /\ pc = "screenshot"
    /\ Awaited(PageScreenshot)
    /\ \E ok \in BOOLEAN :
        /\ trace' = Append(trace, Event(PageScreenshot, ok))
        /\ IF ok
           THEN /\ pc' = "send"
                /\ screenshotBase64' = [shot |-> Len(Shots(trace)) + 1]
                /\ UNCHANGED completion
           ELSE Throw("screenshot") /\ UNCHANGED screenshotBase64
    /\ UNCHANGED << browser, step, response, computerCall, outcome, payloads, turns >>
    /\ UNCHANGED << runsVars, ruleVars >>

\* Send the screenshot back to the model (lines 189-215).
SendTurn ==
    /\ pc = "send"
    /\ ModelCall(ReplyPayload(response, computerCall, screenshotBase64))
    /\ UNCHANGED << browser, step, computerCall, screenshotBase64, outcome >>
    /\ UNCHANGED << runsVars, ruleVars >>

\* The promise once the finally block has run: what the try block returned
\* or threw, unless finally itself threw.
Settled(closed) ==
    IF ~closed THEN [state |-> "rejected", error |-> "close"]
    ELSE IF completion.kind = "return"
         THEN [state |-> "resolved", value |-> completion.value]
         ELSE [state |-> "rejected", error |-> completion.error]

\* finally { await browser.close() }
Finally ==
    /\ pc = "finally"
    /\ Awaited(CloseCall)
    /\ \E ok \in BOOLEAN :
        /\ trace' = Append(trace, Event(CloseCall, ok))
        /\ browser' \in IF ok THEN { "closed" } ELSE { "open", "closed" }
        /\ outcome' = Settled(ok)
    /\ pc' = "done"
    /\ UNCHANGED << step, response, computerCall, screenshotBase64, completion,
                    payloads, turns >>
    /\ UNCHANGED << runsVars, ruleVars >>

Next ==
    \/ Invoke
    \/ Launch
    \/ NewPage
    \/ SetViewportSize
    \/ FirstRequest
    \/ Inspect
    \/ Dispatch
    \/ Settle
    \/ CaptureScreenshot
    \/ SendTurn
    \/ Finally

Spec == Init /\ [][Next]_vars

\* The run under the assumption that every call it makes settles and that
\* the continuation of a settled call is run: no step of the run is put off
\* for ever.
LiveSpec == Spec /\ WF_vars(Next)

----------------------------------------------------------------------------
(* Two invocations of runComputerUseAgent side by side, each taken a whole
   await or a whole loop phase at a time.  The locals of invocation r are
   the record runs[r]; chromium[h] is the browser chromium.launch returned
   as its h-th, 0 standing for no browser. *)

Run == DOMAIN runs

\* step += 1 on a JavaScript number stops counting at 2^53, where n + 1
\* rounds to n; StepLimit stands for that number.
StepLimit == 2

Increment(n) == IF n < StepLimit THEN n + 1 ELSE n

\* The ids the service gives its responses; a response never has the id of
\* the response it continues.
ResponseIds == { "resp_a", "resp_b", "resp_c" }

\* What the single-invocation model is made of.
mainVars == << pc, browser, step, response, computerCall, screenshotBase64,
               completion, outcome, trace, payloads, turns, outstanding >>

\* BrowserOf as it would be if browser were a variable of the module, set
\* by whichever invocation launched last.
BrowserOfShared(r) == Len(chromium)

\* The browser the finally block of invocation r closes: its const browser.
BrowserOf(r) == runs[r].browser

\* const { browser, page } = await launchSandboxedBrowser(): chromium.launch
\* rejects; or it fulfils and newPage or setViewportSize rejects, the
\* launched browser being dropped; or the session opens.
RunLaunch(r) ==
    /\ runs[r].pc = "launch"
    /\ \/ /\ runs' = [runs EXCEPT ![r].pc = "done", ![r].outcome = "rejected"]
          /\ UNCHANGED chromium
       \/ /\ chromium' = Append(chromium, "open")
          /\ runs' = [runs EXCEPT ![r].pc = "done", ![r].outcome = "rejected"]
       \/ /\ chromium' = Append(chromium, "open")
          /\ runs' = [runs EXCEPT ![r].pc = "request",
                                  ![r].browser = Len(chromium) + 1]
    /\ UNCHANGED << timedOut, mainVars, ruleVars >>

\* response = await openai.responses.create(...), then the loop head: the
\* call rejects; or the turn carries a computer_call; or it carries none and
\* the function returns.
RunTurn(r) ==
    /\ runs[r].pc = "request"
    /\ \/ runs' = [runs EXCEPT ![r].pc = "finally", ![r].completion = "throw"]
       \/ \E id \in ResponseIds \ { runs[r].response } :
            \/ runs' = [runs EXCEPT ![r].response = id,
                                    ![r].step = Increment(@),
                                    ![r].pc = "act"]
            \/ runs' = [runs EXCEPT ![r].response = id,
                                    ![r].step = Increment(@),
                                    ![r].pc = "finally",
                                    ![r].completion = "return"]
    /\ UNCHANGED << chromium, timedOut, mainVars, ruleVars >>

\* handleModelAction, the settle delay and the screenshot of one step: all
\* fulfil, or one of them rejects.
RunAct(r) ==
    /\ runs[r].pc = "act"
    /\ \/ runs' = [runs EXCEPT ![r].pc = "request"]
       \/ runs' = [runs EXCEPT ![r].pc = "finally", ![r].completion = "throw"]
    /\ UNCHANGED << chromium, timedOut, mainVars, ruleVars >>

\* finally { await browser.close(); }
RunFinally(r) ==
    /\ runs[r].pc = "finally"
    /\ \E ok \in BOOLEAN :
        /\ chromium' \in IF ok THEN { [chromium EXCEPT ![BrowserOf(r)] = "closed"] }
                         ELSE { chromium, [chromium EXCEPT ![BrowserOf(r)] = "closed"] }
        /\ runs' = [runs EXCEPT ![r].pc = "done",
                                ![r].outcome =
                                    IF ok /\ runs[r].completion = "return"
                                    THEN "resolved" ELSE "rejected"]
    /\ UNCHANGED << timedOut, mainVars, ruleVars >>

\* The caller of invocation r stops waiting for it (a timeout raced against
\* the promise).  runComputerUseAgent(prompt) takes nothing the caller could
\* signal through, so the invocation itself is left as it is.
CallerTimeout(r) ==
    /\ runs[r].pc # "done"
    /\ r \notin timedOut
    /\ timedOut' = timedOut \cup { r }
    /\ UNCHANGED << runs, chromium, mainVars, ruleVars >>

RunStep(r) == RunLaunch(r) \/ RunTurn(r) \/ RunAct(r) \/ RunFinally(r)

RunsNext ==
    \/ \E r \in Run : RunLaunch(r)
    \/ \E r \in Run : RunTurn(r)
    \/ \E r \in Run : RunAct(r)
    \/ \E r \in Run : RunFinally(r)
    \/ \E r \in Run : CallerTimeout(r)

\* Every call of an invocation settles and its continuation is run; the
\* caller's timeout may fire or not.
TwoRuns == Init /\ [][RunsNext]_vars /\ \A r \in { 1, 2 } : WF_vars(RunStep(r))

----------------------------------------------------------------------------
(* Vocabulary of the properties *)

Calls(op) == SelectSeq(trace, LAMBDA e : e.call.op = op)
CloseCalls == Len(Calls("close"))
Launched == \E i \in DOMAIN trace : trace[i].call.op = "launch" /\ trace[i].ok
Failed(i, op) == trace[i].call.op = op /\ ~trace[i].ok
Finished == pc = "done"
Resolved == outcome.state = "resolved"
Rejected == outcome.state = "rejected"

\* A turn carries an action when some item of its output is a computer_call.
CarriesAction(turn) ==
    /\ "output" \in DOMAIN turn
    /\ \E i \in DOMAIN turn.output : turn.output[i].type = "computer_call"

\* The computer_call a turn is answered for: the first one of its output.
ProcessedCall(turn) ==
    turn.output[CHOOSE i \in DOMAIN turn.output :
                    /\ turn.output[i].type = "computer_call"
                    /\ \A j \in 1..(i - 1) : turn.output[j].type # "computer_call"]

----------------------------------------------------------------------------
(* C1, C2: release of the browser when opening the session fails *)

\* C1: every finished run has invoked browser.close() exactly once, whether
\* it completed normally or was aborted by a failure to open the browser
\* session or by a failed model call.
C1_CloseExactlyOncePerRun == Finished => CloseCalls = 1

\* C2: a run that launched a browser never ends without having released it:
\* when newPage or setViewportSize fails after chromium.launch succeeded, the
\* rejection reaches the caller only after browser.close() was invoked.
C2_LaunchedBrowserReleased == (Finished /\ Launched) => CloseCalls >= 1

----------------------------------------------------------------------------
(* C3: a failed model call *)

\* C3: once a model call (the first request or a screenshot reply) has
\* failed, no further page call and no further model call is issued, only
\* browser.close(); the run never resolves; and when the rejection has
\* reached the caller, close has been invoked exactly once and is the last
\* call of the run, so the caller is rejected only after the close.
C3_ModelFailureAbortsAfterClose ==
    \A i \in DOMAIN trace :
        Failed(i, "responses.create") =>
            /\ \A j \in (i + 1)..Len(trace) : trace[j].call.op = "close"
            /\ pc \in { "finally", "done" }
            /\ ~Resolved
            /\ Finished =>
                  /\ Rejected
                  /\ CloseCalls = 1
                  /\ trace[Len(trace)].call.op = "close"
            /\ ~Finished => outcome = Pending /\ CloseCalls = 0

\* A run rejected because a screenshot reply failed, after one executed action.
C3_Witness ==
    /\ Finished
    /\ Rejected
    /\ outcome.error = "model"
    /\ Len(turns) = 1
    /\ Len(payloads) = 2
    /\ Failed(Len(trace) - 1, "responses.create")

----------------------------------------------------------------------------
(* C4: when the loop ends *)

\* The step taken at the head of the loop, by what the inspected turn carries.
C4_StepAtLoopHead ==
    pc = "inspect" =>
        IF CarriesAction(response)
        THEN /\ pc' = "dispatch"
             /\ computerCall' = ProcessedCall(response)
             /\ completion' = Running
        ELSE /\ pc' = "finally"
             /\ completion'.kind = "return"

\* C4: the loop ends with a result if and only if the inspected turn carries
\* no computer_call.  At the head of the loop a turn that carries a
\* computer_call, with or without text beside it, always passes its first
\* computer_call to the dispatcher and returns nothing; a turn without one
\* always returns.  So an iteration is under way only for an action-bearing
\* turn, every turn before the last one returned carried an action and was
\* answered by the next request, and a result exists only for a turn
\* without action.
C4_LoopEndsIffNoAction ==
    /\ [][C4_StepAtLoopHead]_vars
    /\ [](pc \in { "dispatch", "settle", "screenshot", "send" }
             => CarriesAction(response))
    /\ [](\A n \in 1..(Len(turns) - 1) :
             /\ CarriesAction(turns[n])
             /\ payloads[n + 1].input[1].call_id = ProcessedCall(turns[n]).call_id)
    /\ [](completion.kind = "return" => ~CarriesAction(response))
    /\ [](Resolved => ~CarriesAction(turns[Len(turns)]))

\* A turn with text and a computer_call drove an iteration, and the run then
\* ended with the result of a later turn without computer_call.
C4_Witness ==
    /\ Resolved
    /\ Len(turns) = 2
    /\ turns[1].output[1].type = "text"
    /\ CarriesAction(turns[1])
    /\ Len(Calls("screenshot")) = 1

----------------------------------------------------------------------------
(* C5: the value returned *)

\* The text-bearing fragments of a turn, in the order of its output: the
\* items of type text or reasoning.
Fragments(turn) ==
    IF "output" \in DOMAIN turn
    THEN SelectSeq(turn.output, LAMBDA item : item.type \in { "text", "reasoning" })
    ELSE << >>

\* The text a fragment bears: its text, else that of its first summary
\* entry, else nothing.
FragmentText(item) ==
    IF "text" \in DOMAIN item THEN item.text
    ELSE IF "summary" \in DOMAIN item /\ item.summary # << >>
            /\ "text" \in DOMAIN item.summary[1]
         THEN item.summary[1].text
         ELSE << >>

\* frags[1], line break, frags[2], line break, ..., frags[Len(frags)]
RECURSIVE Lines(_)
Lines(frags) ==
    IF frags = << >> THEN << >>
    ELSE IF Len(frags) = 1 THEN FragmentText(frags[1])
    ELSE Lines(SubSeq(frags, 1, Len(frags) - 1))
         \o << "\n" >> \o FragmentText(frags[Len(frags)])

----------------------------------------------------------------------------
(* C6: safety acknowledgements *)

\* The safety-acknowledgement tokens a turn carries: the
\* pending_safety_checks of its processed computer_call.
Tokens(turn) ==
    IF "pending_safety_checks" \in DOMAIN ProcessedCall(turn)
    THEN ProcessedCall(turn).pending_safety_checks
    ELSE << >>

\* C6: the request of turn N+1 carries in acknowledged_safety_checks exactly
\* the tokens of turn N, each unmodified and in the same order, and an empty
\* list when turn N carried none.
C6_SafetyChecksEchoed ==
    \A n \in 1..(Len(payloads) - 1) :
        payloads[n + 1].input[1].acknowledged_safety_checks = Tokens(turns[n])

\* Two tokens echoed in their order, then a turn without tokens answered
\* with an empty list.
C6_Witness ==
    /\ Len(payloads) = 3
    /\ Tokens(turns[1]) = << Check2, Check1 >>
    /\ payloads[2].input[1].acknowledged_safety_checks = << Check2, Check1 >>
    /\ ~Has(ProcessedCall(turns[2]), "pending_safety_checks")
    /\ payloads[3].input[1].acknowledged_safety_checks = << >>

----------------------------------------------------------------------------
(* C7 - C10: what the dispatcher absorbs, and what rejects the run *)

\* The action kinds of the vocabulary.
Vocabulary ==
    { "click", "double_click", "scroll", "type", "keypress", "wait",
      "navigate", "goto", "open_url", "screenshot" }

Unrecognized(action) == action.type \notin Vocabulary

\* A navigate action whose URL is missing, empty or not a string.
MalformedNavigate(action) ==
    /\ action.type \in { "navigate", "goto", "open_url" }
    /\ \/ "url" \notin DOMAIN action
       \/ action.url.typeof # "string"
       \/ action.url = [typeof |-> "string", val |-> ""]

\* The place in the trace of the n-th model call.
CreateIndex(n) ==
    LET at == { i \in DOMAIN trace : trace[i].call.op = "responses.create" }
    IN  CHOOSE i \in at : Cardinality({ j \in at : j <= i }) = n

\* The calls issued between the n-th model call and the next one.
Between(n) == SubSeq(trace, CreateIndex(n) + 1, CreateIndex(n + 1) - 1)

SettleCall == [op |-> "waitForTimeout", ms |-> 750]
ScreenshotCall == [op |-> "screenshot", fullPage |-> TRUE]

\* The dispatcher raised: the try block was left by what handleModelAction threw.
DispatchRaised == completion.kind = "throw" /\ completion.error = "action"

\* The step the dispatcher takes for an action it cannot use.
C7_StepOfDispatch ==
    (/\ pc = "dispatch"
     /\ Unrecognized(computerCall.action) \/ MalformedNavigate(computerCall.action))
    => /\ pc' = "settle"
       /\ trace' = trace
       /\ completion' = Running
       /\ outcome' = Pending

\* C7: dispatching an action of an unrecognized kind, or a navigate action
\* whose URL is missing, empty or not a string, issues no page call, does
\* not raise and leaves the run going at the settle delay; the dispatcher
\* never raised for such an action, and wherever the turn that carried it
\* was answered, the calls between the two model calls are the settle delay
\* and one screenshot, both fulfilled, and nothing else.
C7_UnusableActionIsNoOp ==
    /\ [][C7_StepOfDispatch]_vars
    /\ [](DispatchRaised =>
             ~(\/ Unrecognized(computerCall.action)
               \/ MalformedNavigate(computerCall.action)))
    /\ [](\A n \in 1..(Len(payloads) - 1) :
             LET action == ProcessedCall(turns[n]).action
             IN  (Unrecognized(action) \/ MalformedNavigate(action))
                 => Between(n) = << Event(SettleCall, TRUE), Event(ScreenshotCall, TRUE) >>)

\* A "drag" action and a navigate action with a number as URL were each
\* answered with a screenshot, and the run went on to its result.
C7_Witness ==
    /\ Resolved
    /\ Len(payloads) = 3
    /\ ProcessedCall(turns[1]).action = Drag
    /\ ProcessedCall(turns[2]).action = NavigateNumberUrl
    /\ Len(Calls("screenshot")) = 2

\* C8: handleModelAction never raises: whatever action it is given and
\* whichever page call fails, the try block is never left by an error of
\* the dispatcher.
C8_DispatchNeverRaises == ~DispatchRaised

\* C9: a page.goto that fails is absorbed.  Right after it the run is still
\* going, suspended at the settle delay of the loop, with no error on its
\* way to the caller; the calls issued next are that delay and then, if the
\* delay fulfils, the screenshot and, if that fulfils, the model call with
\* the reply (otherwise the close of an abort caused by that later call);
\* and when the dispatcher did raise, the call that failed was not a goto.
C9_NavigationFailureAbsorbed ==
    /\ \A i \in DOMAIN trace :
          Failed(i, "goto") =>
              /\ i = Len(trace) =>
                    pc = "settle" /\ completion = Running /\ outcome = Pending
              /\ i + 1 <= Len(trace) => trace[i + 1].call = SettleCall
              /\ i + 2 <= Len(trace) =>
                    IF trace[i + 1].ok THEN trace[i + 2].call = ScreenshotCall
                    ELSE trace[i + 2].call.op = "close"
              /\ (i + 3 <= Len(trace) /\ trace[i + 1].ok) =>
                    IF trace[i + 2].ok THEN trace[i + 3].call.op = "responses.create"
                    ELSE trace[i + 3].call.op = "close"
    /\ DispatchRaised =>
          LET k == IF pc = "finally" THEN Len(trace) ELSE Len(trace) - 1
          IN  ~trace[k].ok /\ trace[k].call.op # "goto"

\* A failed navigation, then the screenshot reply and a normal end of the run.
C9_Witness ==
    /\ Resolved
    /\ Len(payloads) = 2
    /\ Failed(CreateIndex(1) + 1, "goto")
    /\ outcome.value = ExampleDomain

\* C10: the run rejects only on a fatal session or transport failure: a
\* rejected run had a failing chromium.launch, newPage, setViewportSize or
\* model call; no failure while executing an action, settling, capturing or
\* releasing the browser rejects a run.
C10_RejectsOnlyOnFatalFailure ==
    Rejected =>
        \E i \in DOMAIN trace :
            /\ ~trace[i].ok
            /\ trace[i].call.op \in
                   { "launch", "newPage", "setViewportSize", "responses.create" }

----------------------------------------------------------------------------
(* C11: the page calls of one dispatch *)

\* An action of the vocabulary whose parameters can be used.
ValidAction(action) ==
    /\ action.type \in Vocabulary
    /\ ~MalformedNavigate(action)

\* The page calls of the dispatch under way or just over: the calls made
\* since the last model call.
Dispatched ==
    LET n == DispatchProgress
    IN  [i \in 1..n |-> trace[Len(trace) - n + i].call]

\* handleModelAction is running, has returned, or has thrown.
InDispatch ==
    \/ pc \in { "dispatch", "settle" }
    \/ pc = "finally" /\ DispatchRaised

Button(action) == IF "button" \in DOMAIN action THEN action.button ELSE "left"

\* The calls that make up the one primitive matching each variant: a pointer
\* click, a double click, a scroll (move the pointer, then scroll the
\* document), literal text, the key presses in order, a wait, a navigation,
\* a screenshot capture.
MatchingPrimitive(action) ==
    CASE action.type = "click" ->
           << [op |-> "mouse.click", x |-> action.x, y |-> action.y,
               button |-> Button(action)] >>
      [] action.type = "double_click" ->
           << [op |-> "mouse.dblclick", x |-> action.x, y |-> action.y,
               button |-> Button(action)] >>
      [] action.type = "scroll" ->
           << [op |-> "mouse.move", x |-> action.x, y |-> action.y],
              [op |-> "evaluate", sx |-> action.scroll_x, sy |-> action.scroll_y] >>
      [] action.type = "type" ->
           << [op |-> "keyboard.type", text |-> action.text] >>
      [] action.type = "keypress" ->
           [i \in DOMAIN action.keys |-> [op |-> "keyboard.press", key |-> action.keys[i]]]
      [] action.type = "wait" ->
           << [op |-> "waitForTimeout",
               ms |-> IF "duration" \in DOMAIN action THEN action.duration ELSE 1000] >>
      [] action.type \in { "navigate", "goto", "open_url" } ->
           << [op |-> "goto", url |-> action.url.val,
               waitUntil |-> IF "wait_until" \in DOMAIN action
                             THEN action.wait_until ELSE "load"] >>
      [] action.type = "screenshot" -> << ScreenshotCall >>

IsPrefix(s, t) == Len(s) <= Len(t) /\ s = SubSeq(t, 1, Len(s))

\* C11 as stated: when the dispatch of a valid action has returned, the page
\* calls it made are those of exactly one invocation of the matching
\* primitive, the screenshot capture for a screenshot action included.
C11_OnePrimitivePerAction ==
    (pc = "settle" /\ ValidAction(computerCall.action))
    => Dispatched = MatchingPrimitive(computerCall.action)

\* C11: for every valid action other than screenshot, dispatch makes the
\* calls of the matching primitive once, in order, and no other call (all of
\* them when it returns, the first ones when a call rejects); for a
\* screenshot action dispatch makes no page call at all.
C11_OnePrimitiveUnlessScreenshot ==
    (InDispatch /\ ValidAction(computerCall.action))
    => LET expected == IF computerCall.action.type = "screenshot" THEN << >>
                       ELSE MatchingPrimitive(computerCall.action)
       IN  /\ IsPrefix(Dispatched, expected)
           /\ pc = "settle" => Dispatched = expected
           /\ DispatchRaised => ~trace[Len(trace)].ok

\* A key press of two keys was dispatched and answered, and the dispatch of
\* a screenshot action has returned.
C11_Witness ==
    /\ pc = "settle"
    /\ Len(turns) = 2
    /\ ProcessedCall(turns[1]).action = KeyPress
    /\ computerCall.action = ScreenshotRequest
    /\ Dispatched = << >>

----------------------------------------------------------------------------
(* C12: one call at a time *)

\* C12: within the run at most one call, browser operation or model call, is
\* outstanding at any time; a call is issued only when none is outstanding,
\* and a call completes only as the outstanding one, leaving none.
C12_StrictlySequential ==
    /\ [](Cardinality(outstanding) <= 1)
    /\ [][/\ (outstanding' \ outstanding # { }) => outstanding = { }
          /\ trace' # trace =>
                /\ Len(trace') = Len(trace) + 1
                /\ outstanding = { trace'[Len(trace')].call }
                /\ outstanding' = { }]_vars

\* The reply of the first step is outstanding at the model service: the page
\* calls, the settle delay and the screenshot of the step have completed.
C12_Witness ==
    /\ pc = "send"
    /\ outstanding = { CreateCall }
    /\ Len(Calls("screenshot")) = 1
    /\ Len(Calls("mouse.move")) = 1

----------------------------------------------------------------------------
(* C13, C14: what a reply refers to *)

\* C13: the first request carries no previous_response_id and only the
\* user's prompt; the request after the n-th response carries the id of the
\* n-th response, not that of an older one, and as input the one
\* computer_call_output of the step, no earlier input.
C13_HandleOfPrecedingResponse ==
    /\ Len(payloads) >= 1 =>
          /\ "previous_response_id" \notin DOMAIN payloads[1]
          /\ payloads[1].input =
                << [role |-> "user",
                    content |-> << [type |-> "input_text", text |-> Prompt] >>] >>
    /\ \A n \in 1..(Len(payloads) - 1) :
          /\ payloads[n + 1].previous_response_id = turns[n].id
          /\ \A m \in 1..(n - 1) : payloads[n + 1].previous_response_id # turns[m].id
          /\ Len(payloads[n + 1].input) = 1
          /\ payloads[n + 1].input[1].type = "computer_call_output"

\* The second reply was sent: it names the second response, not the first.
C13_Witness ==
    /\ Len(payloads) = 3
    /\ payloads[3].previous_response_id = turns[2].id
    /\ payloads[2].previous_response_id = turns[1].id
    /\ turns[1].id # turns[2].id

\* C14: whenever a reply has just been sent (the n-th, last in the trace),
\* it is keyed by the call_id of the computer_call executed in step n, not
\* by that of an earlier step, and carries the n-th screenshot, the one
\* captured in step n right before the reply.
C14_ReplyOfSameStep ==
    LET n == Len(payloads) - 1
        i == Len(trace)
    IN  (n >= 1 /\ trace[i].call.op = "responses.create") =>
            LET item == payloads[n + 1].input[1]
                before == { j \in 1..(i - 1) : trace[j].call.op = "screenshot" }
            IN  /\ item.call_id = ProcessedCall(turns[n]).call_id
                /\ \A m \in 1..(n - 1) :
                      item.call_id # ProcessedCall(turns[m]).call_id
                /\ item.output.type = "input_image"
                /\ item.output.image_url = << "data:image/png;base64,", [shot |-> n] >>
                /\ Cardinality(before) = n
                /\ trace[i - 1] = Event(ScreenshotCall, TRUE)

\* The second reply has just been sent: each of the two replies has the
\* call_id and the screenshot of its own step.
C14_Witness ==
    /\ Len(payloads) = 3
    /\ trace[Len(trace)].call.op = "responses.create"
    /\ payloads[2].input[1].call_id = CallId(1, "d")
    /\ payloads[3].input[1].call_id = CallId(2, "a")
    /\ payloads[2].input[1].output.image_url[2] = [shot |-> 1]
    /\ payloads[3].input[1].output.image_url[2] = [shot |-> 2]

----------------------------------------------------------------------------
(* C15: the order of one step *)

\* C15: once the dispatch of an action has returned, whatever the action,
\* the loop goes on to the settle delay; the settle delay completes before
\* the screenshot is asked for, a screenshot is captured only right after
\* the settle delay of a dispatch that returned, and a reply is sent only
\* right after that one screenshot.
C15_DispatchSettleCaptureSend ==
    [][/\ (pc = "dispatch" /\ pc' # "dispatch" /\ completion' = Running) =>
            pc' = "settle"
       /\ trace' # trace =>
            LET e == trace'[Len(trace')]
                prev == trace[Len(trace)]
            IN  /\ pc = "settle" =>
                      /\ e.call = SettleCall
                      /\ prev.call # SettleCall
                      /\ prev.call.op # "screenshot"
                      /\ pc' = IF e.ok THEN "screenshot" ELSE "finally"
                /\ e.call.op = "screenshot" =>
                      /\ pc = "screenshot"
                      /\ e.call = ScreenshotCall
                      /\ prev = Event(SettleCall, TRUE)
                      /\ pc' = IF e.ok THEN "send" ELSE "finally"
                /\ (e.call.op = "responses.create" /\ payloads # << >>) =>
                      /\ pc = "send"
                      /\ prev = Event(ScreenshotCall, TRUE)
                      /\ trace[Len(trace) - 1] = Event(SettleCall, TRUE)
                      /\ Len(Calls("screenshot")) = Len(payloads)]_vars

\* A screenshot action and an unknown action were executed: each was
\* followed by one settle delay, one screenshot and one reply.
C15_Witness ==
    /\ Len(payloads) = 3
    /\ ProcessedCall(turns[1]).action = ScreenshotRequest
    /\ ProcessedCall(turns[2]).action = Drag
    /\ Len(Calls("screenshot")) = 2
    /\ Len(SelectSeq(trace, LAMBDA e : e.call = SettleCall)) = 2

----------------------------------------------------------------------------
(* C16: no retry of a model call *)

\* The actions the run has executed and answered for.
Executed == { n \in DOMAIN turns : CarriesAction(turns[n]) }

\* C16: every request is sent once (the model calls made are the requests,
\* no two of them alike); a run that resolves after executing k actions has
\* made k + 1 model calls; after a model call that failed the run makes no
\* further model call, and no further call but close.
C16_NoRetryOfTurns ==
    /\ Len(Calls("responses.create")) = Len(payloads)
    /\ \A i, j \in DOMAIN payloads : i # j => payloads[i] # payloads[j]
    /\ Resolved => Len(payloads) = Cardinality(Executed) + 1
    /\ \A i \in DOMAIN trace :
          Failed(i, "responses.create") =>
              \A j \in (i + 1)..Len(trace) : trace[j].call.op = "close"

\* A run resolved after two actions and three model calls.
C16_Witness ==
    /\ Resolved
    /\ Cardinality(Executed) = 2
    /\ Len(Calls("responses.create")) = 3

----------------------------------------------------------------------------
(* C20: close is the last operation *)

\* C20: once browser.close() has been invoked the run makes no further
\* call, and every finished run that launched a browser made close its last
\* call.
C20_CloseIsLastOperation ==
    /\ \A i \in DOMAIN trace : trace[i].call.op = "close" => i = Len(trace)
    /\ (\E i \in DOMAIN trace : trace[i].call.op = "close") => outstanding = { }
    /\ CloseCall \in outstanding => outstanding = { CloseCall }
    /\ (Finished /\ Launched) => trace[Len(trace)].call.op = "close"

----------------------------------------------------------------------------
(* C17: the run ends when the model stops *)

\* Every call the run has made was fulfilled.
AllFulfilled == \A i \in DOMAIN trace : trace[i].ok

\* C17: when every call settles the run ends; a run all of whose calls were
\* fulfilled ends resolved, with the browser closed last, with the joined
\* text of a last turn that carries no action, after answering every
\* action-bearing turn before it, however many steps that took.
C17_EndsWhenModelStops ==
    /\ <>Finished
    /\ []((Finished /\ AllFulfilled) =>
            /\ Resolved
            /\ browser = "closed"
            /\ trace[Len(trace)].call.op = "close"
            /\ ~CarriesAction(turns[Len(turns)])
            /\ outcome.value = Lines(Fragments(turns[Len(turns)]))
            /\ \A n \in 1..(Len(turns) - 1) : CarriesAction(turns[n])
            /\ step = Len(turns)
            /\ Len(payloads) = Len(turns))

\* The model stopped only after as many actions as the service may ask for,
\* and the run returned the text of the turn after them.
C17_Witness ==
    /\ Finished
    /\ AllFulfilled
    /\ Len(turns) = MaxSteps + 1
    /\ step = MaxSteps + 1
    /\ outcome = [state |-> "resolved", value |-> << "Done", "\n", "Task complete" >>]

----------------------------------------------------------------------------
(* C18, C19: invocations side by side, and the caller's timeout *)

\* The loop of invocation r has ended and browser.close() was invoked.
CloseInvoked(r) == runs[r].pc = "done"

\* C18: once the caller of an invocation that opened its session has timed
\* out, browser.close() is eventually invoked on the invocation's browser,
\* whatever the model goes on answering.
C18_ReleasedAfterCallerTimeout ==
    \A r \in { 1, 2 } :
        (r \in timedOut /\ runs[r].browser # 0) ~> CloseInvoked(r)

\* C19: no two invocations hold the same browser, and a step of one
\* invocation changes no local of the other (its step counter, its response
\* handle, its result) and leaves the other's browser as it is.
C19_RunsShareNothing ==
    /\ [](\A r, q \in Run :
            (r # q /\ runs[r].browser # 0) => runs[r].browser # runs[q].browser)
    /\ [][\A r \in Run :
            runs'[r] # runs[r] =>
                \A q \in Run \ { r } :
                    /\ runs'[q] = runs[q]
                    /\ runs[q].browser # 0 =>
                          chromium'[runs[q].browser] = chromium[runs[q].browser]]_vars

\* One invocation failed in its first step and closed its browser; the other
\* is in its second step, its own browser open.
C19_Witness ==
    /\ runs[1].pc = "done"
    /\ runs[1].outcome = "rejected"
    /\ runs[1].step = 1
    /\ chromium[runs[1].browser] = "closed"
    /\ runs[2].pc = "act"
    /\ runs[2].step = 2
    /\ runs[2].response # runs[1].response
    /\ chromium[runs[2].browser] = "open"

----------------------------------------------------------------------------
(* C21: one action and one step per response *)

\* The computer_call items of a turn, in output order.
ComputerCalls(turn) ==
    IF "output" \in DOMAIN turn
    THEN SelectSeq(turn.output, LAMBDA item : item.type = "computer_call")
    ELSE << >>

\* C21: of the computer_call items of a response only the first is executed
\* and answered: the one reply to the response names the first item, no
\* request ever names a later item, and the calls of the dispatch are those
\* of the first item; step counts the responses inspected, so a run that
\* resolves has step = executed actions + 1.
C21_FirstCallOnlyAndStepPerResponse ==
    /\ \A n \in 1..(Len(payloads) - 1) :
          /\ Len(payloads[n + 1].input) = 1
          /\ payloads[n + 1].input[1].call_id = ComputerCalls(turns[n])[1].call_id
    /\ \A n \in DOMAIN turns : \A k \in 2..Len(ComputerCalls(turns[n])) :
          \A m \in 2..Len(payloads) :
              payloads[m].input[1].call_id # ComputerCalls(turns[n])[k].call_id
    /\ pc \in { "dispatch", "settle", "screenshot", "send" } =>
          /\ computerCall = ComputerCalls(response)[1]
          /\ Len(Calls("responses.create")) = Len(turns)
    /\ (pc = "settle" /\ ValidAction(computerCall.action)
            /\ computerCall.action.type # "screenshot") =>
          Dispatched = MatchingPrimitive(ComputerCalls(response)[1].action)
    /\ step = IF pc = "inspect" THEN Len(turns) - 1 ELSE Len(turns)
    /\ Resolved => step = Cardinality(Executed) + 1

\* A response carried two computer_call items (type, then click): only the
\* text was typed, the reply named the first item, and the run resolved
\* after two responses.
C21_Witness ==
    /\ Resolved
    /\ step = 2
    /\ Len(ComputerCalls(turns[1])) = 2
    /\ payloads[2].input[1].call_id = CallId(1, "r")
    /\ Len(Calls("keyboard.type")) = 1
    /\ Len(Calls("mouse.click")) = 0

----------------------------------------------------------------------------
(* C22: the order of key presses, and of a scroll *)

\* C22: while a keypress action is dispatched, the presses completed are
\* those of the first keys in the given order, all fulfilled, and the only
\* call that can be outstanding is the press of the next key; once the
\* dispatch has returned every key was pressed once, in order.  A scroll
\* action has page.mouse.move(x, y) completed before the document scroll is
\* issued.
C22_KeysInOrderMoveBeforeScroll ==
    LET action == computerCall.action
        n == Len(Dispatched)
    IN  /\ (InDispatch /\ action.type = "keypress") =>
              /\ n <= Len(action.keys)
              /\ \A i \in 1..n :
                    Dispatched[i] = [op |-> "keyboard.press", key |-> action.keys[i]]
              /\ \A i \in 1..(n - 1) : trace[Len(trace) - n + i].ok
              /\ pc = "dispatch" =>
                    outstanding \subseteq
                        { [op |-> "keyboard.press", key |-> action.keys[n + 1]] }
              /\ pc = "settle" => n = Len(action.keys)
        /\ (InDispatch /\ action.type = "scroll") =>
              /\ n >= 1 => Dispatched[1] = [op |-> "mouse.move", x |-> action.x,
                                            y |-> action.y]
              /\ n >= 2 =>
                    /\ trace[Len(trace) - n + 1].ok
                    /\ Dispatched[2] = [op |-> "evaluate", sx |-> action.scroll_x,
                                        sy |-> action.scroll_y]
              /\ n <= 2
              /\ pc = "dispatch" =>
                    outstanding \subseteq
                        { IF n = 0
                          THEN [op |-> "mouse.move", x |-> action.x, y |-> action.y]
                          ELSE [op |-> "evaluate", sx |-> action.scroll_x,
                                sy |-> action.scroll_y] }
              /\ pc = "settle" => n = 2

\* The first key of a two-key press has been pressed and the press of the
\* second is outstanding.
C22_Witness ==
    /\ pc = "dispatch"
    /\ computerCall.action = KeyPress
    /\ Dispatched = << [op |-> "keyboard.press", key |-> "Control"] >>
    /\ outstanding = { [op |-> "keyboard.press", key |-> "a"] }


\* ---------------------------------------------------------------------------
\* The rule service: POST /rule/execute
\* ---------------------------------------------------------------------------

NoResult == [status |-> 0, body |-> "none"]
NoRule == [id |-> Undefined]

\* The content of an execution result.
ExecutionContent == << "Price", " ", "dropped", " ", "again" >>

\* return { status, body }
Returned(req, status, body) ==
    [req EXCEPT !.pc = "returned", !.result = [status |-> status, body |-> body]]

\* The handler without its outer try/catch: the exception leaves it.
ExecuteCatchNothing(req, message) == [req EXCEPT !.pc = "rejected"]

\* catch (e) { return { status: 500, body: { error: e.message } } }
ExecuteCatch(req, message) == Returned(req, 500, message)

SetReq(q, req) == reqs' = [reqs EXCEPT ![q] = req]

\* The route handler reads the header and the body and calls handleExecute.
\* The upstash-signature header is absent, matches the body or does not; the
\* raw body is JSON with or without a ruleId, is not JSON, or is absent (the
\* ruleId is then that of the parsed body).
PostExecute(q) ==
    /\ reqs[q].pc = "idle"
    /\ \E signature \in { Undefined, "valid", "invalid" },
          rawBody \in { [kind |-> "json", ruleId |-> "r1"],
                        [kind |-> "json", ruleId |-> "r9"],
                        [kind |-> "json", ruleId |-> Undefined],
                        [kind |-> "malformed", ruleId |-> Undefined],
                        [kind |-> "absent", ruleId |-> "r1"] } :
          SetReq(q, [handler |-> "handleExecute", pc |-> "verify",
                     signature |-> signature, rawBody |-> rawBody,
                     verified |-> FALSE, rule |-> NoRule,
                     executionResult |-> Undefined, found |-> FALSE,
                     generated |-> FALSE,
                     result |-> NoResult, sent |-> << >>])
    /\ UNCHANGED << rules, notifications, schedules, baseUrl, mainVars, runsVars >>

\* if (signature) { ok = await verifySignature(rawBody, signature); ... }
\* The signature is verified when there is one, and only then; verification
\* throws when there is no raw body or the signature does not match it.
VerifySignature(q) ==
    /\ reqs[q].handler = "handleExecute"
    /\ reqs[q].pc = "verify"
    /\ LET req == reqs[q]
       IN  SetReq(q, IF req.signature = Undefined
                     THEN [req EXCEPT !.pc = "getRule"]
                     ELSE IF req.rawBody.kind = "absent"
                          THEN ExecuteCatch(req, "Cannot read properties of undefined")
                          ELSE IF req.signature = "valid"
                               THEN [req EXCEPT !.pc = "getRule", !.verified = TRUE]
                               ELSE ExecuteCatch(req, "signature does not match"))
    /\ UNCHANGED << rules, notifications, schedules, baseUrl, mainVars, runsVars >>

\* supabase ... .eq("id", rule_id).single(): the row, or an error when the
\* query fails or no row has this id.
Row(ruleId, ok) == IF ok /\ ruleId \in DOMAIN rules THEN rules[ruleId] ELSE NoRule

\* payload = rawBody && rawBody.length ? JSON.parse(rawBody) : body || {}
\* (JSON.parse throws on a body that is not JSON), then getRuleById(ruleId).
GetRule(q) ==
    /\ reqs[q].handler = "handleExecute"
    /\ reqs[q].pc = "getRule"
    /\ \E ok \in BOOLEAN :
          LET req == reqs[q]
              rule == Row(req.rawBody.ruleId, ok)
          IN  IF req.rawBody.kind = "malformed"
              THEN ok /\ SetReq(q, ExecuteCatch(req, "Unexpected token"))
              ELSE IF rule = NoRule
                   THEN SetReq(q, ExecuteCatch(req, "Rule not found"))
                   ELSE SetReq(q, [req EXCEPT !.pc = "generate", !.rule = rule])
    /\ UNCHANGED << rules, notifications, schedules, baseUrl, mainVars, runsVars >>

\* executionResult = await openaiGenerate(prompt, RuleExecutionSchema): the
\* parsed object, or the raw text when the reply is not JSON; or it rejects.
Generate(q) ==
    /\ reqs[q].handler = "handleExecute"
    /\ reqs[q].pc = "generate"
    /\ \E executionResult \in
            { [kind |-> "object", content |-> ExecutionContent, foundRelevantResults |-> TRUE],
              [kind |-> "object", content |-> ExecutionContent, foundRelevantResults |-> FALSE],
              [kind |-> "text", content |-> << >>, foundRelevantResults |-> FALSE],
              [kind |-> "rejects", content |-> << >>, foundRelevantResults |-> FALSE] } :
          LET req == [reqs[q] EXCEPT !.generated = TRUE,
                                     !.executionResult = executionResult.kind,
                                     !.found = executionResult.foundRelevantResults]
          IN  IF executionResult.kind = "rejects"
              THEN SetReq(q, ExecuteCatch(req, "OpenAI request failed"))
              ELSE IF executionResult.foundRelevantResults
                   THEN SetReq(q, [req EXCEPT !.pc = "notify"])
                   ELSE SetReq(q, Returned(req, 200, "ok"))
    /\ UNCHANGED << rules, notifications, schedules, baseUrl, mainVars, runsVars >>

\* The row createNotification inserts for request q.
NotificationOf(q) ==
    [user_id |-> reqs[q].rule.user_id, rule_id |-> reqs[q].rule.id,
     payload |-> ExecutionContent, by |-> q]

\* await notificationService.createNotification(rule.user_id, ruleId, { result })
\* The insert can fail; the handler does not look at what it returns.
CreateNotification(q) ==
    /\ reqs[q].handler = "handleExecute"
    /\ reqs[q].pc = "notify"
    /\ \E ok \in BOOLEAN :
          notifications' =
              IF ok
              THEN Append(notifications, NotificationOf(q))
              ELSE notifications
    /\ SetReq(q, [reqs[q] EXCEPT !.pc = "history"])
    /\ UNCHANGED << rules, schedules, baseUrl, mainVars, runsVars >>

\* newEntry: the content and the instant it was built (that of request q).
NewEntry(q) == [content |-> ExecutionContent, timestamp |-> q]

\* updatedHistory = [...(rule.history || []), newEntry], from the row as fetched;
\* await updateRuleHistory(ruleId, updatedHistory): the column is overwritten
\* when the update succeeds and the row is still there. return 200.
UpdateRuleHistory(q) ==
    /\ reqs[q].handler = "handleExecute"
    /\ reqs[q].pc = "history"
    /\ \E ok \in BOOLEAN :
          rules' =
              IF ok /\ reqs[q].rule.id \in DOMAIN rules
              THEN [rules EXCEPT ![reqs[q].rule.id].history =
                                    Append(reqs[q].rule.history, NewEntry(q))]
              ELSE rules
    /\ SetReq(q, Returned(reqs[q], 200, "ok"))
    /\ UNCHANGED << notifications, schedules, baseUrl, mainVars, runsVars >>

\* return res.status(result.status).json(result.body)
Respond(q) ==
    /\ reqs[q].pc = "returned"
    /\ SetReq(q, [reqs[q] EXCEPT !.pc = "sent", !.sent = Append(@, reqs[q].result)])
    /\ UNCHANGED << rules, notifications, schedules, baseUrl, mainVars, runsVars >>

\* ---------------------------------------------------------------------------
\* QStashService.scheduleExecution and cronToFrequency
\* ---------------------------------------------------------------------------

\* The texts a caller can pass as the cadence, character by character: the
\* labels of the switch, and others.
Chars ==
    ("per_minute" :> << "p", "e", "r", "_", "m", "i", "n", "u", "t", "e" >>) @@
    ("minute" :> << "m", "i", "n", "u", "t", "e" >>) @@
    ("minutely" :> << "m", "i", "n", "u", "t", "e", "l", "y" >>) @@
    ("hourly" :> << "h", "o", "u", "r", "l", "y" >>) @@
    ("hour" :> << "h", "o", "u", "r" >>) @@
    ("daily" :> << "d", "a", "i", "l", "y" >>) @@
    ("day" :> << "d", "a", "y" >>) @@
    ("weekly" :> << "w", "e", "e", "k", "l", "y" >>) @@
    ("week" :> << "w", "e", "e", "k" >>) @@
    ("DAILY" :> << "D", "A", "I", "L", "Y" >>) @@
    ("Per Minute" :> << "P", "e", "r", " ", "M", "i", "n", "u", "t", "e" >>) @@
    ("per  minute" :> << "p", "e", "r", " ", " ", "m", "i", "n", "u", "t", "e" >>) @@
    ("monthly" :> << "m", "o", "n", "t", "h", "l", "y" >>) @@
    ("per-minute" :> << "p", "e", "r", "-", "m", "i", "n", "u", "t", "e" >>)

\* String.toLowerCase(), on the letters the cadences above are written with.
LowerOf == ("D" :> "d") @@ ("A" :> "a") @@ ("I" :> "i") @@ ("L" :> "l") @@
           ("Y" :> "y") @@ ("P" :> "p") @@ ("M" :> "m")
ToLowerCase(text) ==
    [i \in 1..Len(text) |-> IF text[i] \in DOMAIN LowerOf THEN LowerOf[text[i]] ELSE text[i]]

\* String.replace(/\s+/g, "_"): every run of white space becomes one underscore.
RECURSIVE ReplaceWhiteSpace(_)
ReplaceWhiteSpace(text) ==
    IF text = << >> THEN << >>
    ELSE IF Head(text) \in WhiteSpace
         THEN << "_" >> \o ReplaceWhiteSpace(TrimStart(text))
         ELSE << Head(text) >> \o ReplaceWhiteSpace(Tail(text))

\* The cadence as the caller wrote it, with no normalisation.
NormalizedNot(cadence) == cadence

\* normalized = String(cadence).toLowerCase().replace(/\s+/g, "_")
Normalized(cadence) == ReplaceWhiteSpace(ToLowerCase(cadence))

Unsupported == "Unsupported cadence"
MissingBaseUrl == "Missing QSTASH_DESTINATION_BASE_URL for QStash destination"

\* switch (normalized) { ... default: throw }
CronOf(cadence) ==
    LET normalized == Normalized(cadence)
    IN  CASE normalized \in { Chars["per_minute"], Chars["minute"], Chars["minutely"] } -> "* * * * *"
          [] normalized \in { Chars["hourly"], Chars["hour"] } -> "0 * * * *"
          [] normalized \in { Chars["daily"], Chars["day"] } -> "0 0 * * *"
          [] normalized \in { Chars["weekly"], Chars["week"] } -> "0 0 * * 0"
          [] OTHER -> Unsupported

cronToFrequency(cron) ==
    CASE cron \in { "* * * * *", "*/1 * * * *" } -> "Every minute"
      [] cron = "0 * * * *" -> "Hourly"
      [] cron = "0 0 * * *" -> "Daily"
      [] cron = "0 0 * * 0" -> "Weekly"
      [] OTHER -> cron

\* ---------------------------------------------------------------------------
\* The rule service: POST /rule
\* ---------------------------------------------------------------------------

TextPrompt == << "Tell", " ", "me", " ", "prices" >>
AiPrompt == << "Report", " ", "price", " ", "drops" >>
AiPromptPadded == << " " >> \o AiPrompt \o << "\n" >>

\* crypto.randomUUID(), and the id QStash gives the schedule it creates.
NewRuleId(q) == IF q = 1 THEN "n1" ELSE "n2"
NewScheduleId(q) == IF q = 1 THEN "t1" ELSE "t2"

\* catch (error) { return { status: 500, body: { error: "Internal server error" } } }
\* (the error it logs is kept as thrown)
CreateCatch(req, error) ==
    [Returned(req, 500, "Internal server error") EXCEPT !.thrown = error]

\* The route handler validates the body, then calls handleCreate.
PostRule(q) ==
    /\ reqs[q].pc = "idle"
    /\ \E userId \in { "u1", Undefined }, textPrompt \in { TextPrompt, << >> } :
          IF userId = Undefined \/ textPrompt = << >>
          THEN SetReq(q, [handler |-> "post", pc |-> "returned",
                          result |-> [status |-> 400, body |-> "Missing required fields"],
                          sent |-> << >>])
          ELSE SetReq(q, [handler |-> "handleCreate", pc |-> "generatePrompt",
                          userId |-> userId, textPrompt |-> textPrompt,
                          structured |-> Undefined, generated |-> << >>,
                          frequency |-> << >>,
                          finalPrompt |-> textPrompt, cadence |-> Chars["per_minute"],
                          ruleId |-> Undefined, scheduleId |-> Undefined,
                          thrown |-> "none", result |-> NoResult, sent |-> << >>])
    /\ UNCHANGED << rules, notifications, schedules, baseUrl, mainVars, runsVars >>

\* The stored prompt is the generated text exactly as the model wrote it.
FinalPromptUntrimmed(textPrompt, structured) ==
    IF structured.kind = "object" /\ structured.aiPrompt # << >>
    THEN structured.aiPrompt
    ELSE textPrompt

\* if (structured && structured.aiPrompt) finalPrompt = String(aiPrompt).trim()
FinalPrompt(textPrompt, structured) ==
    IF structured.kind = "object" /\ structured.aiPrompt # << >>
    THEN Trim(structured.aiPrompt)
    ELSE textPrompt

\* if (structured && structured.frequency) cadence = structured.frequency
CadenceOf(structured) ==
    IF structured.kind = "object" /\ structured.frequency # << >>
    THEN structured.frequency
    ELSE Chars["per_minute"]

\* try { structured = await openaiGenerate(...) ... } catch (err) { warn }
\* openaiGenerate resolves with an object holding an aiPrompt and a frequency
\* (either can be empty), with the raw text when the reply is not JSON, or it
\* rejects.
GeneratePrompt(q) ==
    /\ reqs[q].handler = "handleCreate"
    /\ reqs[q].pc = "generatePrompt"
    /\ \E structured \in
            { [kind |-> "object", aiPrompt |-> AiPromptPadded, frequency |-> Chars[f]] :
                  f \in DOMAIN Chars }
            \cup { [kind |-> "object", aiPrompt |-> AiPrompt, frequency |-> << >>],
                   [kind |-> "object", aiPrompt |-> << >>, frequency |-> Chars["weekly"]],
                   [kind |-> "text", aiPrompt |-> << >>, frequency |-> << >>],
                   [kind |-> "rejects", aiPrompt |-> << >>, frequency |-> << >>] } :
          SetReq(q, [reqs[q] EXCEPT !.pc = "schedule",
                                    !.structured = structured.kind,
                                    !.generated = structured.aiPrompt,
                                    !.frequency = structured.frequency,
                                    !.finalPrompt = FinalPrompt(reqs[q].textPrompt, structured),
                                    !.cadence = CadenceOf(structured),
                                    !.ruleId = NewRuleId(q)])
    /\ UNCHANGED << rules, notifications, schedules, baseUrl, mainVars, runsVars >>

\* schedule = await qstashService.scheduleExecution(ruleId, cadence): it throws
\* without a base URL or on an unsupported cadence, else asks QStash for the
\* schedule, which can fail too.
ScheduleExecution(q) ==
    /\ reqs[q].handler = "handleCreate"
    /\ reqs[q].pc = "schedule"
    /\ \E ok \in BOOLEAN :
          LET req == reqs[q]
              cron == CronOf(req.cadence)
          IN  IF baseUrl = Undefined \/ cron = Unsupported \/ ~ok
              THEN /\ baseUrl = Undefined \/ cron = Unsupported => ok
                   /\ SetReq(q, CreateCatch(req,
                                   IF baseUrl = Undefined THEN MissingBaseUrl
                                   ELSE IF cron = Unsupported THEN Unsupported
                                   ELSE "QStash request failed"))
                   /\ schedules' = schedules
              ELSE /\ schedules' = schedules @@
                          (NewScheduleId(q) :>
                              [cron |-> cron, ruleId |-> req.ruleId, retries |-> 3, by |-> q])
                   /\ SetReq(q, [req EXCEPT !.pc = "createRule",
                                            !.scheduleId = NewScheduleId(q)])
    /\ UNCHANGED << rules, notifications, baseUrl, mainVars, runsVars >>

\* { data, error } = await createRule(userId, finalPrompt, ruleId);
\* if (error || !data?.id) return { status: 500, ... }
CreateRule(q) ==
    /\ reqs[q].handler = "handleCreate"
    /\ reqs[q].pc = "createRule"
    /\ \E ok \in BOOLEAN :
          LET req == reqs[q]
          IN  IF ok
              THEN /\ rules' = rules @@
                          (req.ruleId :>
                              [id |-> req.ruleId, user_id |-> req.userId,
                               prompt |-> req.finalPrompt, cron_id |-> Undefined,
                               history |-> << >>])
                   /\ SetReq(q, [req EXCEPT !.pc = "cronId"])
              ELSE /\ rules' = rules
                   /\ SetReq(q, Returned(req, 500, "Failed to create rule"))
    /\ UNCHANGED << notifications, schedules, baseUrl, mainVars, runsVars >>

\* if (scheduleId) await updateRuleCronId(ruleId, scheduleId); return 201
UpdateRuleCronId(q) ==
    /\ reqs[q].handler = "handleCreate"
    /\ reqs[q].pc = "cronId"
    /\ \E ok \in BOOLEAN :
          rules' =
              IF ok /\ reqs[q].ruleId \in DOMAIN rules
              THEN [rules EXCEPT ![reqs[q].ruleId].cron_id = reqs[q].scheduleId]
              ELSE rules
    /\ SetReq(q, Returned(reqs[q], 201, "Rule created successfully"))
    /\ UNCHANGED << notifications, schedules, baseUrl, mainVars, runsVars >>

\* ---------------------------------------------------------------------------
\* The rule service: deleteUserRule
\* ---------------------------------------------------------------------------

\* A caller asks for the deletion of a rule.
DeleteUserRule(q) ==
    /\ reqs[q].pc = "idle"
    /\ \E rule_id \in { "r1", "r2", "r9" } :
          SetReq(q, [handler |-> "deleteUserRule", pc |-> "fetch", rule_id |-> rule_id,
                     rule |-> NoRule, fetched |-> FALSE, qstashSuccess |-> Undefined,
                     deletes |-> << >>, result |-> [success |-> Undefined]])
    /\ UNCHANGED << rules, notifications, schedules, baseUrl, mainVars, runsVars >>

\* { data: rule, error: fetchError } = await getRuleById(rule_id);
\* if (fetchError) return { success: false, error: fetchError }
FetchRule(q) ==
    /\ reqs[q].handler = "deleteUserRule"
    /\ reqs[q].pc = "fetch"
    /\ \E ok \in BOOLEAN :
          LET req == reqs[q]
              rule == Row(req.rule_id, ok)
          IN  IF rule = NoRule
              THEN SetReq(q, [req EXCEPT !.pc = "resolved", !.result = [success |-> "false"]])
              ELSE SetReq(q, [req EXCEPT !.rule = rule, !.fetched = TRUE,
                                         !.pc = IF rule.cron_id # Undefined
                                                THEN "deleteSchedule"
                                                ELSE "deleteRule"])
    /\ UNCHANGED << rules, notifications, schedules, baseUrl, mainVars, runsVars >>

\* The deletion stops when QStash could not delete the schedule.
AfterScheduleAbort(req, ok) ==
    IF ok
    THEN [req EXCEPT !.pc = "deleteRule", !.qstashSuccess = "true"]
    ELSE [req EXCEPT !.pc = "resolved", !.qstashSuccess = "false",
                     !.result = [success |-> "false"]]

\* if (!qstashSuccess) warn; the deletion goes on either way.
AfterSchedule(req, ok) ==
    [req EXCEPT !.pc = "deleteRule", !.qstashSuccess = IF ok THEN "true" ELSE "false"]

\* { success, error } = await qstashService.deleteSchedule(rule.cron_id):
\* QStash deletes the schedule, or it does not and success is false.
DeleteSchedule(q) ==
    /\ reqs[q].handler = "deleteUserRule"
    /\ reqs[q].pc = "deleteSchedule"
    /\ \E ok \in BOOLEAN :
          /\ schedules' =
                 IF ok
                 THEN [sid \in DOMAIN schedules \ { reqs[q].rule.cron_id } |-> schedules[sid]]
                 ELSE schedules
          /\ SetReq(q, AfterSchedule(reqs[q], ok))
    /\ UNCHANGED << rules, notifications, baseUrl, mainVars, runsVars >>

\* return await deleteRule(rule_id): the row goes when the delete succeeds.
DeleteRule(q) ==
    /\ reqs[q].handler = "deleteUserRule"
    /\ reqs[q].pc = "deleteRule"
    /\ \E ok \in BOOLEAN :
          /\ rules' =
                 IF ok
                 THEN [id \in DOMAIN rules \ { reqs[q].rule_id } |-> rules[id]]
                 ELSE rules
          /\ SetReq(q, [reqs[q] EXCEPT
                           !.pc = "resolved",
                           !.deletes = Append(@, IF ok THEN "true" ELSE "false"),
                           !.result = [success |-> IF ok THEN "true" ELSE "false"]])
    /\ UNCHANGED << notifications, schedules, baseUrl, mainVars, runsVars >>

\* Requests are served as they come; each handler runs from await to await.
RuleNext ==
    \/ \E q \in Requests : PostExecute(q)
    \/ \E q \in Requests : VerifySignature(q)
    \/ \E q \in Requests : GetRule(q)
    \/ \E q \in Requests : Generate(q)
    \/ \E q \in Requests : CreateNotification(q)
    \/ \E q \in Requests : UpdateRuleHistory(q)
    \/ \E q \in Requests : Respond(q)
    \/ \E q \in Requests : PostRule(q)
    \/ \E q \in Requests : GeneratePrompt(q)
    \/ \E q \in Requests : ScheduleExecution(q)
    \/ \E q \in Requests : CreateRule(q)
    \/ \E q \in Requests : UpdateRuleCronId(q)
    \/ \E q \in Requests : DeleteUserRule(q)
    \/ \E q \in Requests : FetchRule(q)
    \/ \E q \in Requests : DeleteSchedule(q)
    \/ \E q \in Requests : DeleteRule(q)

RuleSpec == RuleInit /\ [][RuleNext]_vars

\* ---------------------------------------------------------------------------
\* Properties of the rule service
\* ---------------------------------------------------------------------------

\* C23: handleExecute and handleCreate never reject: whatever verification,
\* parsing, the rule lookup, scheduling, generation and persistence do, they
\* resolve with a status and a body, and the route handler sends that result
\* once and only once.
C23_HandlersAlwaysResolve ==
    \A q \in Requests :
        reqs[q].handler \in { "handleExecute", "handleCreate", "post" } =>
            /\ reqs[q].pc \in { "verify", "getRule", "generate", "notify", "history",
                                "generatePrompt", "schedule", "createRule", "cronId",
                                "returned", "sent" }
            /\ reqs[q].pc \in { "returned", "sent" } =>
                  /\ reqs[q].result.status \in { 200, 201, 400, 500 }
                  /\ reqs[q].result.body # NoResult.body
            /\ reqs[q].pc \notin { "returned", "sent" } => reqs[q].result = NoResult
            /\ reqs[q].sent = IF reqs[q].pc = "sent" THEN << reqs[q].result >> ELSE << >>

C23_Witness ==
    /\ reqs[1].handler = "handleExecute"
    /\ reqs[1].signature = "invalid"
    /\ reqs[1].sent = << [status |-> 500, body |-> "signature does not match"] >>
    /\ reqs[2].handler = "handleCreate"
    /\ reqs[2].sent = << [status |-> 500, body |-> "Failed to create rule"] >>

\* C24: handleExecute stores a notification and extends the rule's history only
\* when the execution result reports foundRelevantResults. When it does, the
\* call adds exactly one notification and appends exactly one entry to the end
\* of the history the rule has, keeping the earlier entries in order; when it
\* does not, the call changes neither the notifications nor the history.
C24_NotifyAndAppendOnlyWhenRelevant ==
    [][\A q \in Requests :
          (reqs[q].handler = "handleExecute" /\ reqs'[q] # reqs[q]) =>
              /\ reqs[q].pc \in { "notify", "history" } => reqs[q].found
              /\ (reqs[q].pc = "generate" /\ reqs'[q].found) => reqs'[q].pc = "notify"
              /\ (reqs'[q].pc = "returned" /\ reqs'[q].found) => reqs[q].pc = "history"
              /\ CASE reqs[q].pc = "notify" ->
                        /\ notifications' = Append(notifications, NotificationOf(q))
                        /\ rules' = rules
                   [] reqs[q].pc = "history" ->
                        /\ notifications' = notifications
                        /\ reqs[q].rule.id \in DOMAIN rules
                        /\ rules' = [rules EXCEPT ![reqs[q].rule.id].history =
                                                     Append(@, NewEntry(q))]
                   [] OTHER ->
                        /\ notifications' = notifications
                        /\ rules' = rules]_vars

Families ==
    [per_minute |-> [listed |-> { Chars["per_minute"], Chars["minute"], Chars["minutely"] },
                     cron |-> "* * * * *", label |-> "Every minute"],
     hourly |-> [listed |-> { Chars["hourly"], Chars["hour"] },
                 cron |-> "0 * * * *", label |-> "Hourly"],
     daily |-> [listed |-> { Chars["daily"], Chars["day"] },
                cron |-> "0 0 * * *", label |-> "Daily"],
     weekly |-> [listed |-> { Chars["weekly"], Chars["week"] },
                 cron |-> "0 0 * * 0", label |-> "Weekly"]]

\* A text reads as a listed cadence when it is that cadence up to the case of
\* its letters, a run of white space standing for the underscore.
RECURSIVE ReadsAs(_, _)
ReadsAs(text, listed) ==
    IF text = << >> \/ listed = << >>
    THEN text = << >> /\ listed = << >>
    ELSE IF Head(text) \in WhiteSpace
         THEN Head(listed) = "_" /\ ReadsAs(TrimStart(text), Tail(listed))
         ELSE /\ \/ Head(text) = Head(listed)
                 \/ Head(text) \in DOMAIN LowerOf /\ LowerOf[Head(text)] = Head(listed)
              /\ ReadsAs(Tail(text), Tail(listed))

\* What scheduleExecution has to do with the cadence of every handleCreate,
\* the accepted cadences being the listed ones as written, or the texts that
\* read as a listed one.
ScheduledAsExpected(asWritten) ==
    \A q \in Requests :
        (reqs[q].handler = "handleCreate"
            /\ reqs[q].pc \notin { "generatePrompt", "schedule" }) =>
            LET fams == { f \in DOMAIN Families :
                            \E listed \in Families[f].listed :
                                IF asWritten
                                THEN reqs[q].cadence = listed
                                ELSE ReadsAs(reqs[q].cadence, listed) }
                mine == { sid \in DOMAIN schedules : schedules[sid].by = q }
            IN  IF fams # { } /\ baseUrl # Undefined
                THEN /\ reqs[q].thrown \notin { Unsupported, MissingBaseUrl }
                     /\ Cardinality(fams) = 1
                     /\ IF reqs[q].scheduleId = Undefined
                        THEN mine = { } /\ reqs[q].thrown = "QStash request failed"
                        ELSE /\ mine = { reqs[q].scheduleId }
                             /\ \A f \in fams :
                                   /\ schedules[reqs[q].scheduleId].cron = Families[f].cron
                                   /\ cronToFrequency(Families[f].cron) = Families[f].label
                             /\ schedules[reqs[q].scheduleId].ruleId = reqs[q].ruleId
                ELSE /\ mine = { }
                     /\ reqs[q].scheduleId = Undefined
                     /\ reqs[q].thrown \in { Unsupported, MissingBaseUrl }
                     /\ reqs[q].result.status = 500

\* C26 as stated: scheduleExecution accepts only the cadences per_minute,
\* hourly, daily and weekly and their listed aliases, exactly as written: for
\* each it creates exactly one schedule with the cron of the cadence, whose
\* label cronToFrequency returns; for any other cadence, or without the
\* destination base URL, it throws before creating any schedule.
C26_OnlyListedCadences == ScheduledAsExpected(TRUE)

\* C26, amended: the cadences accepted are the texts that read as a listed
\* cadence once lower-cased and with every run of white space replaced by an
\* underscore; each creates exactly one schedule with the cron of that cadence,
\* whose label cronToFrequency returns. Any other cadence, or a missing
\* destination base URL, throws before any schedule is created.
C26_ListedCadencesUpToCaseAndSpace == ScheduledAsExpected(FALSE)

C26_Witness ==
    /\ baseUrl = BaseUrl
    /\ reqs[1].handler = "handleCreate"
    /\ reqs[1].cadence = Chars["per  minute"]
    /\ "t1" \in DOMAIN schedules
    /\ schedules["t1"].cron = "* * * * *"
    /\ reqs[2].handler = "handleCreate"
    /\ reqs[2].cadence = Chars["per-minute"]
    /\ reqs[2].thrown = Unsupported
    /\ "t2" \notin DOMAIN schedules

\* What handleCreate has to store and schedule: after a failed generation the
\* user's textPrompt and per_minute; after a generation that resolved with an
\* object, its aiPrompt and frequency as generated, or trimmed and with the
\* defaults standing in for an empty aiPrompt or frequency.
StoredAsGenerated(asGenerated) ==
    \A q \in Requests :
        reqs[q].handler = "handleCreate" =>
            LET req == reqs[q]
                failed == req.structured = "rejects"
                mine == { sid \in DOMAIN schedules : schedules[sid].by = q }
                expectedPrompt ==
                    IF asGenerated THEN req.generated
                    ELSE IF req.generated # << >> THEN Trim(req.generated)
                    ELSE req.textPrompt
                expectedCadence ==
                    IF asGenerated \/ req.frequency # << >> THEN req.frequency
                    ELSE Chars["per_minute"]
            IN  /\ (failed /\ req.pc \in { "returned", "sent" }) =>
                      \/ req.result.status = 201
                      \/ req.thrown # "none"
                      \/ req.result.body = "Failed to create rule"
                /\ \A sid \in mine :
                      schedules[sid].cron =
                          IF failed THEN Families.per_minute.cron
                          ELSE IF req.structured = "object" THEN CronOf(expectedCadence)
                          ELSE schedules[sid].cron
                /\ (req.pc \in { "cronId", "returned", "sent" }
                        /\ req.ruleId \in DOMAIN rules) =>
                      rules[req.ruleId].prompt =
                          IF failed THEN req.textPrompt
                          ELSE IF req.structured = "object" THEN expectedPrompt
                          ELSE rules[req.ruleId].prompt

\* C27 as stated: a failure of prompt generation does not abort handleCreate:
\* the rule is then scheduled with the default cadence per_minute and stored
\* with the user's textPrompt; when generation succeeds, the stored prompt is
\* the generated aiPrompt and the schedule uses the generated frequency.
C27_GeneratedPromptStored == StoredAsGenerated(TRUE)

\* C27, amended: as above for a failed generation; when generation resolves
\* with an object, the stored prompt is its aiPrompt with the white space
\* around it trimmed, or the user's textPrompt when aiPrompt is empty, and the
\* schedule uses its frequency, or per_minute when frequency is empty.
C27_GeneratedPromptTrimmedOrDefault == StoredAsGenerated(FALSE)

C27_Witness ==
    /\ reqs[1].handler = "handleCreate"
    /\ reqs[1].structured = "rejects"
    /\ reqs[1].result.status = 201
    /\ rules["n1"].prompt = TextPrompt
    /\ schedules["t1"].cron = "* * * * *"
    /\ reqs[2].handler = "handleCreate"
    /\ reqs[2].generated = AiPromptPadded
    /\ reqs[2].frequency = Chars["hourly"]
    /\ reqs[2].result.status = 201
    /\ rules["n2"].prompt = AiPrompt
    /\ schedules["t2"].cron = "0 * * * *"

\* C28: once handleCreate has returned, every QStash schedule it created refers
\* to a rule that exists in the database; when it returns a status other than
\* 201, no schedule created by that call remains.
C28_NoScheduleWithoutRule ==
    \A q \in Requests :
        (reqs[q].handler = "handleCreate" /\ reqs[q].pc \in { "returned", "sent" }) =>
            \A sid \in DOMAIN schedules :
                schedules[sid].by = q =>
                    /\ schedules[sid].ruleId \in DOMAIN rules
                    /\ reqs[q].result.status = 201

\* The entries of a history that executions appended.
Appended(history) ==
    { history[i] : i \in { j \in DOMAIN history : history[j].timestamp \in Requests } }

\* C29: when two handleExecute calls for the same rule run concurrently and
\* both report relevant results, no history entry written by one execution is
\* overwritten by the other: a history update keeps every entry an execution
\* has appended to the stored history.
C29_NoHistoryEntryOverwritten ==
    [][\A id \in DOMAIN rules \cap DOMAIN rules' :
          Appended(rules[id].history) \subseteq Appended(rules'[id].history)]_vars

\* C30: handleExecute runs a rule (model generation, notification, history
\* update) only for a request whose QStash signature was verified successfully:
\* a request with a signature that fails, or with no signature at all, never
\* reaches model generation and never stores a notification or a history entry.
C30_RunsOnlyWhenVerified ==
    \A q \in Requests :
        reqs[q].handler = "handleExecute" =>
            \/ reqs[q].verified
            \/ /\ ~reqs[q].generated
               /\ reqs[q].pc \notin { "generate", "notify", "history" }
               /\ \A i \in DOMAIN notifications : notifications[i].by # q
               /\ \A id \in DOMAIN rules : NewEntry(q) \notin Appended(rules[id].history)

==============================================================================
